---------------------------- MODULE Spec2Model ----------------------------
(***************************************************************************)
(* The session state of the newsletter page (the Page component and the    *)
(* TweetCards / EditorModal components it renders) as a state machine.     *)
(*                                                                         *)
(* Every handler is one action.  An async handler is two actions: the part *)
(* that runs up to its first await (it captures the state of the render it *)
(* was created in and issues the request) and the continuation that runs   *)
(* when the response arrives.  A button is an action whose guard is the    *)
(* condition under which the JSX renders it enabled; a press on a rendered *)
(* but disabled button dispatches no handler and is an action of its own,  *)
(* which only records the press in `signal`.                               *)
(***************************************************************************)
EXTENDS Integers, Sequences, FiniteSets, TLC

(* ---------------------------- bounds ---------------------------------- *)
\* longest article list the aggregation service returns in Spec
MaxArticles == 2
\* most requests of one kind the model lets be outstanding at once
MaxInFlight == 2
\* most edit_tweet responses applied in one behaviour
MaxRounds == 2
\* most successful tweet generations in one behaviour
MaxGen == 1
\* most presses of single article checkboxes in one behaviour of SpecSelect
MaxToggles == 3
\* the most /edit answers one conversation of the modal editor collects
MaxApplies == 2

(* ------------------------ program constants --------------------------- *)
\* getHighlights: `selectedArticles.length > 5`
SelectionLimit == 5
\* TweetCards: `pendingTweetUpdate.length > 280`
MaxTweetLen == 280

(* ----------------------------- values --------------------------------- *)
\* useState('') and the texts the page can hold in summary / newsletterHtml
EmptyText == ""
UndefinedText == "undefined"
SummaryMarkdown == "summary_markdown"
NoArticlesMessage == "No articles found for the selected sources in the past 7 days."
GeneratedHtml == "html"
EditedHtml == "edited_text"

\* useState<string | null>(null): currentEditingTweetId
NullId == 0
\* useState<string | null>(null): pendingTweetUpdate
NullText == [kind |-> "null", tid |-> 0, gen |-> 0, len |-> 0]

\* what a backend call can come back with: a body with the expected field,
\* a body without it (an error status with a JSON body; no handler of the
\* page looks at res.ok), or a rejected fetch / unparsable body
Outcomes == {"ok", "badbody", "neterr"}

VARIABLES
    articles,              \* Article[] (each article is its link)
    selectedArticles,      \* string[] of article links
    summary,
    tweets,                \* Array<{id, content, summary_link}>
    tweetsUndefined,       \* setTweets(undefined) happened: the render throws
    newsletterHtml,
    loadingHighlights, loadingSummaries, loadingTweets, loadingNewsletter,
    summariesMode, pageIndex, isPaginated,
    highlights,            \* Array<{link}> (each highlight is its link)
    currentEditingTweetId, tweetConversations, pendingTweetUpdate,
    editorOpen, editTarget, editorText,
    text,                  \* EditorModal: the text in its textarea
    sessionId,             \* the id drawn when the page loads
    history,               \* EditorModal: ConversationTurn[], or undefined
    localStorage,          \* window.localStorage: key -> string
    modalLoading,          \* EditorModal: loading
    reqApply,              \* outstanding /edit requests
    alertOpen,             \* window.alert is showing (it blocks the page)
    reqHighlights,         \* outstanding fetchAndSummarize calls
    reqSummaries,          \* outstanding /summaries_selected requests
    reqTweets,             \* outstanding /tweets requests
    reqNewsletter,         \* outstanding /newsletter requests
    reqEdit,               \* outstanding /edit_tweet requests
    tweetGen,              \* number of tweet sets the service has produced
    rounds,                \* number of edit_tweet responses applied
    toggles,               \* number of checkbox presses counted by SpecSelect
    signal                 \* what the last user gesture came to

pipelineVars == <<articles, selectedArticles, summary, newsletterHtml,
                  summariesMode, pageIndex, isPaginated, highlights>>
loadingVars == <<loadingHighlights, loadingSummaries, loadingTweets, loadingNewsletter>>
tweetVars == <<tweets, tweetsUndefined, tweetGen>>
editVars == <<currentEditingTweetId, tweetConversations, pendingTweetUpdate, rounds>>
storeVars == <<sessionId, history, localStorage, modalLoading, reqApply>>
modalVars == <<editorOpen, editTarget, editorText, text, storeVars>>
reqVars == <<reqHighlights, reqSummaries, reqTweets, reqNewsletter, reqEdit>>
vars == <<pipelineVars, loadingVars, tweetVars, editVars, modalVars, reqVars,
          alertOpen, toggles, signal>>

(* ----------------------------- helpers -------------------------------- *)
Range(s) == {s[i] : i \in 1..Len(s)}

\* Array.prototype.filter
RECURSIVE Filter(_, _)
Filter(s, keep) ==
    IF s = <<>> THEN <<>>
    ELSE IF Head(s) \in keep THEN <<Head(s)>> \o Filter(Tail(s), keep)
    ELSE Filter(Tail(s), keep)

\* s with the element at position i left out
Without(s, i) == SubSeq(s, 1, i - 1) \o SubSeq(s, i + 1, Len(s))

Max(a, b) == IF a > b THEN a ELSE b
Min(a, b) == IF a < b THEN a ELSE b

\* const hasHighlights = useMemo(() => !!summary, [summary])
hasHighlights == summary \notin {EmptyText, UndefinedText}

\* the page renders: `tweets.length` of an undefined tweets throws in render
\* and an open window.alert blocks every handler and continuation
Rendered == ~tweetsUndefined
Running == Rendered /\ ~alertOpen

(* ------------- EditorModal: the history and its mirror ---------------- *)
\* a string is the sequence of its characters; the two characters JSON
\* escapes in the strings of this model are the quote and the backslash
Quotation == "\""
Backslash == "\\"

\* (mutant) the backslash is written as it is
RECURSIVE Escape_QuotesOnly(_)
Escape_QuotesOnly(s) ==
    IF s = <<>> THEN <<>>
    ELSE (IF Head(s) = Quotation THEN <<Backslash, Head(s)>> ELSE <<Head(s)>>)
            \o Escape_QuotesOnly(Tail(s))

\* JSON.stringify of the characters of a string
RECURSIVE Escape(_)
Escape(s) ==
    IF s = <<>> THEN <<>>
    ELSE (IF Head(s) \in {Quotation, Backslash} THEN <<Backslash, Head(s)>> ELSE <<Head(s)>>)
            \o Escape(Tail(s))

\* JSON.stringify of a string
Quote(s) == <<Quotation>> \o Escape(s) \o <<Quotation>>

\* JSON.stringify of a ConversationTurn (a role is one character here)
StringifyTurn(t) ==
    <<"{">> \o Quote(<<"role">>) \o <<":">> \o Quote(<<t.role>>) \o <<",">>
            \o Quote(<<"content">>) \o <<":">> \o Quote(t.content) \o <<"}">>

RECURSIVE StringifyTurns(_)
StringifyTurns(ts) ==
    IF ts = <<>> THEN <<>>
    ELSE IF Len(ts) = 1 THEN StringifyTurn(ts[1])
    ELSE StringifyTurn(ts[1]) \o <<",">> \o StringifyTurns(Tail(ts))

\* the history of a fresh EditorModal: useState<ConversationTurn[]>([])
EmptyHistory == [def |-> TRUE, turns |-> <<>>]
\* the history after setHistory(undefined)
UndefinedHistory == [def |-> FALSE, turns |-> <<>>]

\* what localStorage.setItem(key, JSON.stringify(history)) stores: setItem
\* turns the undefined JSON.stringify(undefined) returns into "undefined"
Stringify(h) ==
    IF h.def THEN <<"[">> \o StringifyTurns(h.turns) \o <<"]">> ELSE <<"undefined">>

\* --- JSON.parse of a stored string.  A result is [ok, val, next]: whether
\* the text from the start position is well formed, the value read and the
\* position after it.
ParseFailure == [ok |-> FALSE, val |-> <<>>, next |-> 0]

Expect(str, i, c) == i <= Len(str) /\ str[i] = c

\* the characters of a string literal from position i to its closing quote
RECURSIVE ReadChars(_, _, _)
ReadChars(str, i, acc) ==
    IF i > Len(str) THEN ParseFailure
    ELSE IF str[i] = Quotation THEN [ok |-> TRUE, val |-> acc, next |-> i + 1]
    ELSE IF str[i] = Backslash
         THEN (IF i + 1 <= Len(str) /\ str[i + 1] \in {Quotation, Backslash}
               THEN ReadChars(str, i + 2, Append(acc, str[i + 1]))
               ELSE ParseFailure)
    ELSE ReadChars(str, i + 1, Append(acc, str[i]))

ParseString(str, i) ==
    IF Expect(str, i, Quotation) THEN ReadChars(str, i + 1, <<>>) ELSE ParseFailure

\* "key": "value" from position i
ParseMember(str, i) ==
    LET k == ParseString(str, i)
    IN  IF ~k.ok \/ ~Expect(str, k.next, ":") THEN ParseFailure
        ELSE LET v == ParseString(str, k.next + 1)
             IN  IF ~v.ok THEN ParseFailure
                 ELSE [ok |-> TRUE, val |-> <<k.val, v.val>>, next |-> v.next]

\* an object of two members, read as a ConversationTurn
ParseTurn(str, i) ==
    IF ~Expect(str, i, "{") THEN ParseFailure
    ELSE LET m1 == ParseMember(str, i + 1)
         IN  IF ~m1.ok \/ ~Expect(str, m1.next, ",") THEN ParseFailure
             ELSE LET m2 == ParseMember(str, m1.next + 1)
                  IN  IF ~m2.ok \/ ~Expect(str, m2.next, "}") THEN ParseFailure
                      ELSE IF m1.val[1] = <<"role">> /\ m2.val[1] = <<"content">>
                              /\ Len(m1.val[2]) = 1
                           THEN [ok |-> TRUE,
                                 val |-> [role |-> m1.val[2][1], content |-> m2.val[2]],
                                 next |-> m2.next + 1]
                           ELSE ParseFailure

\* the elements of an array from position i to the closing bracket, which
\* ends the text
RECURSIVE ParseElements(_, _, _)
ParseElements(str, i, acc) ==
    LET t == ParseTurn(str, i)
    IN  IF ~t.ok THEN ParseFailure
        ELSE IF Expect(str, t.next, ",")
             THEN ParseElements(str, t.next + 1, Append(acc, t.val))
        ELSE IF Expect(str, t.next, "]") /\ t.next = Len(str)
             THEN [ok |-> TRUE, val |-> Append(acc, t.val), next |-> t.next + 1]
        ELSE ParseFailure

\* JSON.parse(saved)
Parse(str) ==
    IF ~Expect(str, 1, "[") THEN ParseFailure
    ELSE IF Expect(str, 2, "]")
         THEN (IF Len(str) = 2 THEN [ok |-> TRUE, val |-> <<>>, next |-> 3]
               ELSE ParseFailure)
    ELSE ParseElements(str, 2, <<>>)

\* const key = `mem_${sessionId}`
Key(sid) == <<"mem_", sid>>

\* a localStorage with nothing in it
EmptyStore == [k \in {} |-> <<>>]

\* the effect on [history, sessionId]: localStorage.setItem(key, JSON.stringify(history))
Persisted(store, sid, h) ==
    [k \in DOMAIN store \cup {Key(sid)} |-> IF k = Key(sid) THEN Stringify(h) ELSE store[k]]

\* the effect on [sessionId]: the history is the saved one when there is a
\* saved string and JSON.parse does not throw; it stays [] otherwise
Loaded(store, sid) ==
    IF Key(sid) \in DOMAIN store /\ store[Key(sid)] # <<>> /\ Parse(store[Key(sid)]).ok
    THEN [def |-> TRUE, turns |-> Parse(store[Key(sid)]).val]
    ELSE EmptyHistory

\* the ids Math.random().toString(36).slice(2) gives the page loads
SessionIds == {"s1", "s2"}

Init ==
    /\ articles = <<>>
    /\ selectedArticles = <<>>
    /\ summary = EmptyText
    /\ tweets = <<>>
    /\ tweetsUndefined = FALSE
    /\ newsletterHtml = EmptyText
    /\ loadingHighlights = FALSE
    /\ loadingSummaries = FALSE
    /\ loadingTweets = FALSE
    /\ loadingNewsletter = FALSE
    /\ summariesMode = FALSE
    /\ pageIndex = 0
    /\ isPaginated = TRUE
    /\ highlights = <<>>
    /\ currentEditingTweetId = NullId
    /\ tweetConversations = <<>>
    /\ pendingTweetUpdate = NullText
    /\ editorOpen = FALSE
    /\ editTarget = "summary"
    /\ editorText = EmptyText
    /\ text = EmptyText
    /\ sessionId = "s1"
    /\ history = EmptyHistory
    /\ localStorage = Persisted(EmptyStore, "s1", EmptyHistory)
    /\ modalLoading = FALSE
    /\ reqApply = <<>>
    /\ alertOpen = FALSE
    /\ reqHighlights = 0
    /\ reqSummaries = <<>>
    /\ reqTweets = <<>>
    /\ reqNewsletter = 0
    /\ reqEdit = <<>>
    /\ tweetGen = 0
    /\ rounds = 0
    /\ toggles = 0
    /\ signal = "none"


(* ------------------- gestures that run no handler --------------------- *)
\* a press on a button that is rendered with `disabled`: React dispatches no
\* onClick, nothing of the page changes
Dropped(button) ==
    /\ signal' = button
    /\ UNCHANGED <<pipelineVars, loadingVars, tweetVars, editVars, modalVars,
                   reqVars, alertOpen, toggles>>

\* EditorModal renders a `fixed inset-0 z-50` layer over the page: while it
\* is open the buttons of the page lie under it
PageReachable == Running /\ ~editorOpen

\* the user closes the window.alert of getHighlights
DismissAlert ==
    /\ alertOpen
    /\ alertOpen' = FALSE
    /\ signal' = "none"
    /\ UNCHANGED <<pipelineVars, loadingVars, tweetVars, editVars, modalVars, reqVars,
                   toggles>>

(* ----------------------- fetchAndSummarize ---------------------------- *)
\* the article lists POST /aggregate answers with
RECURSIVE Iota(_)
Iota(n) == IF n = 0 THEN <<>> ELSE Append(Iota(n - 1), n)

\* <button onClick={fetchAndSummarize} disabled={loadingHighlights}>
GetHighlightsDisabled == loadingHighlights

\* fetchAndSummarize up to its first await
fetchAndSummarize ==
    /\ loadingHighlights' = TRUE
    /\ reqHighlights' = reqHighlights + 1
    /\ signal' = "none"
    /\ UNCHANGED <<pipelineVars, tweetVars, editVars, modalVars,
                   alertOpen, toggles, loadingSummaries, loadingTweets, loadingNewsletter,
                   reqSummaries, reqTweets, reqNewsletter, reqEdit>>

\* the "Get Highlights" button, rendered when !hasHighlights && !summariesMode
PressGetHighlights ==
    /\ PageReachable
    /\ ~hasHighlights /\ ~summariesMode
    /\ reqHighlights < MaxInFlight
    /\ ~GetHighlightsDisabled
    /\ fetchAndSummarize

PressDisabledGetHighlights ==
    /\ PageReachable
    /\ ~hasHighlights /\ ~summariesMode
    /\ GetHighlightsDisabled
    /\ Dropped("disabled:GetHighlights")

\* (mutant) no branch for an empty article list
FetchedSummary_NoEmptyBranch(arts, sum) ==
    IF sum = "ok" THEN SummaryMarkdown ELSE UndefinedText

\* the summary fetchAndSummarize stores for the fetched articles
FetchedSummary(arts, sum) ==
    IF Len(arts) > 0
    THEN (IF sum = "ok" THEN SummaryMarkdown ELSE UndefinedText)
    ELSE NoArticlesMessage

\* (mutant) nothing is selected by default
articleUrls_None(arts) == <<>>

\* dataAgg.articles.map(a => a.link): an article is modelled by its link
articleUrls(arts) == [i \in DOMAIN arts |-> arts[i]]

\* the rest of fetchAndSummarize: both awaits (/aggregate, then /highlights)
\* touch no state of the page, so their two responses are drawn in one step.
\* agg = "badbody": dataAgg.articles.map throws and the catch runs.
fetchAndSummarizeDone(agg, arts, sum) ==
    /\ Running
    /\ reqHighlights > 0
    /\ reqHighlights' = reqHighlights - 1
    /\ loadingHighlights' = FALSE
    /\ signal' = "none"
    /\ IF agg # "ok" \/ sum = "neterr"
       THEN UNCHANGED pipelineVars
       ELSE /\ articles' = arts
            /\ selectedArticles' = articleUrls(arts)
            /\ summary' = FetchedSummary(arts, sum)
            /\ summariesMode' = FALSE
            /\ UNCHANGED <<newsletterHtml, pageIndex, isPaginated, highlights>>
    /\ UNCHANGED <<tweetVars, editVars, modalVars, alertOpen, toggles, loadingSummaries,
                   loadingTweets, loadingNewsletter, reqSummaries, reqTweets,
                   reqNewsletter, reqEdit>>

(* -------------------------- getHighlights ----------------------------- *)
\* disabled={loadingSummaries || selectedArticles.length === 0}
GetSummariesDisabled == loadingSummaries \/ Len(selectedArticles) = 0

\* (mutant) the limit check off by one
OverSelectionLimit_OffByOne == Len(selectedArticles) > SelectionLimit + 1

\* (mutant) no limit check
OverSelectionLimit_Never == FALSE

\* if (selectedArticles.length > 5) { alert(...); return }
OverSelectionLimit == Len(selectedArticles) > SelectionLimit

\* (mutant) the selected links in the order they were selected
selectedArticleData_SelectionOrder == Filter(selectedArticles, Range(articles))

\* articles.filter(a => selectedArticles.includes(a.link))
selectedArticleData == Filter(articles, Range(selectedArticles))

\* getHighlights up to its first await
getHighlights ==
    /\ signal' = "none"
    /\ IF OverSelectionLimit
       THEN /\ alertOpen' = TRUE
            /\ UNCHANGED <<loadingSummaries, reqSummaries>>
       ELSE /\ loadingSummaries' = TRUE
            /\ reqSummaries' = Append(reqSummaries, selectedArticleData)
            /\ UNCHANGED alertOpen
    /\ UNCHANGED <<pipelineVars, tweetVars, editVars, modalVars, loadingHighlights,
                   loadingTweets, loadingNewsletter, reqHighlights, reqTweets,
                   reqNewsletter, reqEdit, toggles>>

\* the "Get Summaries" button, rendered when hasHighlights && !summariesMode
PressGetSummaries ==
    /\ PageReachable
    /\ hasHighlights /\ ~summariesMode
    /\ Len(reqSummaries) < MaxInFlight
    /\ ~GetSummariesDisabled
    /\ getHighlights

PressDisabledGetSummaries ==
    /\ PageReachable
    /\ hasHighlights /\ ~summariesMode
    /\ GetSummariesDisabled
    /\ Dropped("disabled:GetSummaries")

\* the items POST /summaries_selected answers with for the articles sent: one
\* per article that survived summarization (here: a prefix of those sent)
Survivors(sent) == {SubSeq(sent, 1, n) : n \in 0..Len(sent)}

\* (mutant) the cursor is clamped to the new list instead of being reset
CursorAfterReplace_Clamp(items) == Max(0, Min(pageIndex, Len(items) - 1))

\* (mutant) the cursor is left where it was
CursorAfterReplace_Keep(items) == pageIndex

\* setPageIndex(0), in the batch that stores the new highlights
CursorAfterReplace(items) == 0

\* the rest of getHighlights; `data.items || []` makes a body without items
\* an empty list
getHighlightsDone(i, outcome, items) ==
    /\ Running
    /\ i \in DOMAIN reqSummaries
    /\ reqSummaries' = Without(reqSummaries, i)
    /\ loadingSummaries' = FALSE
    /\ signal' = "none"
    /\ IF outcome = "neterr"
       THEN UNCHANGED pipelineVars
       ELSE /\ highlights' = (IF outcome = "ok" THEN items ELSE <<>>)
            /\ summariesMode' = TRUE
            /\ pageIndex' = CursorAfterReplace(highlights')
            /\ UNCHANGED <<articles, selectedArticles, summary, newsletterHtml, isPaginated>>
    /\ UNCHANGED <<tweetVars, editVars, modalVars, alertOpen, toggles, loadingHighlights,
                   loadingTweets, loadingNewsletter, reqHighlights, reqTweets,
                   reqNewsletter, reqEdit>>

(* -------------------------- resetSummaries ---------------------------- *)
\* (mutant) reset clears the articles and keeps the selection
resetSummaries_KeepsSelection ==
    /\ summariesMode' = FALSE
    /\ summary' = EmptyText
    /\ articles' = <<>>
    /\ tweets' = <<>>
    /\ newsletterHtml' = EmptyText
    /\ pageIndex' = 0
    /\ highlights' = <<>>
    /\ selectedArticles' = selectedArticles
    /\ isPaginated' = TRUE
    /\ signal' = "none"
    /\ UNCHANGED <<loadingVars, tweetsUndefined, tweetGen, editVars, modalVars,
                   reqVars, alertOpen, toggles>>

\* (mutant) reset also clears the in-flight flags
resetSummaries_ClearsFlags ==
    /\ summariesMode' = FALSE
    /\ summary' = EmptyText
    /\ articles' = <<>>
    /\ tweets' = <<>>
    /\ newsletterHtml' = EmptyText
    /\ pageIndex' = 0
    /\ highlights' = <<>>
    /\ selectedArticles' = <<>>
    /\ isPaginated' = TRUE
    /\ signal' = "none"
    /\ loadingHighlights' = FALSE /\ loadingSummaries' = FALSE
    /\ loadingTweets' = FALSE /\ loadingNewsletter' = FALSE
    /\ UNCHANGED <<tweetsUndefined, tweetGen, editVars, modalVars,
                   reqVars, alertOpen, toggles>>

resetSummaries ==
    /\ summariesMode' = FALSE
    /\ summary' = EmptyText
    /\ articles' = <<>>
    /\ tweets' = <<>>
    /\ newsletterHtml' = EmptyText
    /\ pageIndex' = 0
    /\ highlights' = <<>>
    /\ selectedArticles' = <<>>
    /\ isPaginated' = TRUE
    /\ signal' = "none"
    /\ UNCHANGED <<loadingVars, tweetsUndefined, tweetGen, editVars, modalVars,
                   reqVars, alertOpen, toggles>>

\* the "no articles" notice: !summariesMode, hasHighlights && articles.length === 0
NoArticlesNoticeShown == ~summariesMode /\ hasHighlights /\ Len(articles) = 0

\* the "Reset" button, rendered when hasHighlights or summariesMode
PressReset ==
    /\ PageReachable
    /\ hasHighlights \/ summariesMode
    /\ resetSummaries

(* ------------------------ article selection --------------------------- *)
toggleArticleSelection(articleUrl) ==
    /\ selectedArticles' =
          (IF articleUrl \in Range(selectedArticles)
           THEN Filter(selectedArticles, Range(selectedArticles) \ {articleUrl})
           ELSE Append(selectedArticles, articleUrl))
    /\ signal' = "none"
    /\ UNCHANGED <<articles, summary, newsletterHtml, summariesMode, pageIndex,
                   isPaginated, highlights, loadingVars, tweetVars, editVars,
                   modalVars, reqVars, alertOpen>>

selectAllArticles ==
    /\ selectedArticles' = articles
    /\ signal' = "none"
    /\ UNCHANGED <<articles, summary, newsletterHtml, summariesMode, pageIndex,
                   isPaginated, highlights, loadingVars, tweetVars, editVars,
                   modalVars, reqVars, alertOpen, toggles>>

deselectAllArticles ==
    /\ selectedArticles' = <<>>
    /\ signal' = "none"
    /\ UNCHANGED <<articles, summary, newsletterHtml, summariesMode, pageIndex,
                   isPaginated, highlights, loadingVars, tweetVars, editVars,
                   modalVars, reqVars, alertOpen, toggles>>

\* the article list is rendered when !summariesMode && articles.length > 0
ArticleListRendered == PageReachable /\ ~summariesMode /\ Len(articles) > 0

\* an article's checkbox
PressArticleCheckbox ==
    /\ ArticleListRendered
    /\ \E a \in Range(articles) : toggleArticleSelection(a)
    /\ UNCHANGED toggles

\* the same, at most MaxToggles times in a behaviour
PressArticleCheckboxCounted ==
    /\ ArticleListRendered
    /\ toggles < MaxToggles
    /\ \E a \in Range(articles) : toggleArticleSelection(a)
    /\ toggles' = toggles + 1
PressSelectAll == ArticleListRendered /\ selectAllArticles
PressDeselectAll == ArticleListRendered /\ deselectAllArticles

(* ----------------------------- paginator ------------------------------ *)
\* the frame of a handler that only moves the cursor or switches the view
PagerFrame ==
    UNCHANGED <<articles, selectedArticles, summary, newsletterHtml, summariesMode,
                highlights, loadingVars, tweetVars, editVars, modalVars, reqVars,
                alertOpen, toggles>>

\* the pagination controls, rendered in summariesMode when isPaginated and
\* highlights.length > 1
PagerRendered == PageReachable /\ summariesMode /\ isPaginated /\ Len(highlights) > 1

\* onClick={() => setPageIndex(Math.max(0, pageIndex - 1))} disabled={pageIndex === 0}
PressPrevious ==
    /\ PagerRendered
    /\ pageIndex # 0
    /\ pageIndex' = Max(0, pageIndex - 1)
    /\ signal' = "none"
    /\ UNCHANGED isPaginated
    /\ PagerFrame

\* (mutant) Next neither clamps nor is disabled on the last item
PressNext_NoClamp ==
    /\ PagerRendered
    /\ pageIndex' = pageIndex + 1
    /\ signal' = "none"
    /\ UNCHANGED isPaginated
    /\ PagerFrame

\* onClick={() => setPageIndex(Math.min(highlights.length - 1, pageIndex + 1))}
\* disabled={pageIndex === highlights.length - 1}
PressNext ==
    /\ PagerRendered
    /\ pageIndex # Len(highlights) - 1
    /\ pageIndex' = Min(Len(highlights) - 1, pageIndex + 1)
    /\ signal' = "none"
    /\ UNCHANGED isPaginated
    /\ PagerFrame

\* the "Paginated View" checkbox, rendered in summariesMode
TogglePaginated ==
    /\ PageReachable
    /\ summariesMode
    /\ isPaginated' = ~isPaginated
    /\ pageIndex' = 0
    /\ signal' = "none"
    /\ PagerFrame

(* ----------------------------- makeTweets ----------------------------- *)
\* (mutant) the button does not look at the highlights
GenerateTweetsDisabled_NoEmptyCheck == loadingTweets

\* disabled={highlights.length === 0 || loadingTweets}
GenerateTweetsDisabled == Len(highlights) = 0 \/ loadingTweets

\* makeTweets up to its await: the request carries the highlights of the render
makeTweets ==
    /\ loadingTweets' = TRUE
    /\ reqTweets' = Append(reqTweets, highlights)
    /\ signal' = "none"
    /\ UNCHANGED <<pipelineVars, tweetVars, editVars, modalVars, alertOpen, toggles,
                   loadingHighlights, loadingSummaries, loadingNewsletter,
                   reqHighlights, reqSummaries, reqNewsletter, reqEdit>>

\* the "Generate X/Tweets" button (always rendered)
PressGenerateTweets ==
    /\ PageReachable
    /\ Len(reqTweets) < MaxInFlight
    /\ tweetGen + Len(reqTweets) < MaxGen
    /\ ~GenerateTweetsDisabled
    /\ makeTweets

PressDisabledGenerateTweets ==
    /\ PageReachable
    /\ GenerateTweetsDisabled
    /\ Dropped("disabled:GenerateTweets")

\* the posts POST /tweets answers with: one per highlight sent, with an id
\* that is stable across generations
GeneratedTweets(sent, g) ==
    [i \in 1..Len(sent) |->
        [id |-> i,
         content |-> [kind |-> "generated", tid |-> i, gen |-> g, len |-> MaxTweetLen],
         summary_link |-> sent[i]]]

\* the rest of makeTweets; a body without `tweets` makes tweets undefined
makeTweetsDone(i, outcome) ==
    /\ Running
    /\ i \in DOMAIN reqTweets
    /\ reqTweets' = Without(reqTweets, i)
    /\ loadingTweets' = FALSE
    /\ signal' = "none"
    /\ CASE outcome = "ok" ->
              /\ tweets' = GeneratedTweets(reqTweets[i], tweetGen + 1)
              /\ tweetGen' = tweetGen + 1
              /\ UNCHANGED tweetsUndefined
         [] outcome = "badbody" ->
              /\ tweetsUndefined' = TRUE
              /\ UNCHANGED <<tweets, tweetGen>>
         [] OTHER -> UNCHANGED tweetVars
    /\ UNCHANGED <<pipelineVars, editVars, modalVars, alertOpen, toggles, loadingHighlights,
                   loadingSummaries, loadingNewsletter, reqHighlights, reqSummaries,
                   reqNewsletter, reqEdit>>

(* --------------------------- makeNewsletter --------------------------- *)
\* (mutant) the button without its in-flight check
GenerateNewsletterDisabled_NoFlag == Len(highlights) = 0

\* (mutant) the button is also disabled while the tweets are generated
GenerateNewsletterDisabled_AnyFlag ==
    Len(highlights) = 0 \/ loadingNewsletter \/ loadingTweets

\* disabled={highlights.length === 0 || loadingNewsletter}
GenerateNewsletterDisabled == Len(highlights) = 0 \/ loadingNewsletter

makeNewsletter ==
    /\ loadingNewsletter' = TRUE
    /\ reqNewsletter' = reqNewsletter + 1
    /\ signal' = "none"
    /\ UNCHANGED <<pipelineVars, tweetVars, editVars, modalVars, alertOpen, toggles,
                   loadingHighlights, loadingSummaries, loadingTweets,
                   reqHighlights, reqSummaries, reqTweets, reqEdit>>

\* the newsletter "Generate" button (always rendered)
PressGenerateNewsletter ==
    /\ PageReachable
    /\ reqNewsletter < MaxInFlight
    /\ ~GenerateNewsletterDisabled
    /\ makeNewsletter

PressDisabledGenerateNewsletter ==
    /\ PageReachable
    /\ GenerateNewsletterDisabled
    /\ Dropped("disabled:GenerateNewsletter")

\* the rest of makeNewsletter; a body without `html` makes the text undefined
makeNewsletterDone(outcome) ==
    /\ Running
    /\ reqNewsletter > 0
    /\ reqNewsletter' = reqNewsletter - 1
    /\ loadingNewsletter' = FALSE
    /\ signal' = "none"
    /\ IF outcome = "neterr"
       THEN UNCHANGED newsletterHtml
       ELSE newsletterHtml' = (IF outcome = "ok" THEN GeneratedHtml ELSE UndefinedText)
    /\ UNCHANGED <<articles, selectedArticles, summary, summariesMode, pageIndex,
                   isPaginated, highlights, tweetVars, editVars, modalVars, alertOpen, toggles,
                   loadingHighlights, loadingSummaries, loadingTweets,
                   reqHighlights, reqSummaries, reqTweets, reqEdit>>

(* ------------------------- the modal editor --------------------------- *)
\* the text openEditor hands to the modal for a target
EditorTextOf(target) ==
    IF target = "summary" THEN summary
    ELSE IF target = "newsletter" THEN newsletterHtml
    ELSE EmptyText

\* EditorModal's effect on [open, initialText]: when one of the two changes
\* and the modal is open, its text becomes initialText
TextAfterOpen(initialText) ==
    IF editorOpen /\ initialText = editorText THEN text ELSE initialText

openEditor(target) ==
    /\ editTarget' = target
    /\ editorText' = EditorTextOf(target)
    /\ editorOpen' = TRUE
    /\ text' = TextAfterOpen(editorText')
    /\ signal' = "none"
    /\ UNCHANGED <<pipelineVars, loadingVars, tweetVars, editVars, reqVars, alertOpen, toggles,
                   storeVars>>

\* the only call of openEditor the page renders: the newsletter's
\* "Edit with AI" button, disabled={!newsletterHtml}
PressEditNewsletter ==
    /\ PageReachable
    /\ newsletterHtml \notin {EmptyText, UndefinedText}
    /\ openEditor("newsletter")

\* EditorModal "Close": onClose={() => setEditorOpen(false)}
CloseEditorModal ==
    /\ Running
    /\ editorOpen
    /\ editorOpen' = FALSE
    /\ signal' = "none"
    /\ UNCHANGED <<pipelineVars, loadingVars, tweetVars, editVars, reqVars, alertOpen, toggles,
                   editTarget, editorText, text, storeVars>>

\* the texts the user types into the modal's textarea
TypedTexts == {"typed"}

\* the modal's textarea: onChange={e => setText(e.target.value)}
TypeText ==
    /\ Running
    /\ editorOpen
    /\ \E typed \in TypedTexts : text' = typed
    /\ signal' = "none"
    /\ UNCHANGED <<pipelineVars, loadingVars, tweetVars, editVars, reqVars, alertOpen, toggles,
                   editorOpen, editTarget, editorText, storeVars>>

\* onEditorDone(newText).  No call of openEditor passes a `tweet-N` target,
\* so editTarget is "summary" or "newsletter" and that branch never runs.
onEditorDone(newText) ==
    /\ summary' = (IF editTarget = "summary" THEN newText ELSE summary)
    /\ newsletterHtml' = (IF editTarget = "newsletter" THEN newText ELSE newsletterHtml)
    /\ UNCHANGED <<articles, selectedArticles, summariesMode, pageIndex, isPaginated,
                   highlights>>

\* EditorModal "Use result": onDone(text); onClose().  The modal's text is
\* the text it was opened with, or what Apply / the textarea made of it.
UseResult ==
    /\ Running
    /\ editorOpen
    /\ onEditorDone(text)
    /\ editorOpen' = FALSE
    /\ signal' = "none"
    /\ UNCHANGED <<loadingVars, tweetVars, editVars, reqVars, alertOpen, toggles,
                   editTarget, editorText, text, storeVars>>

(* ---------------------- the inline tweet editor ----------------------- *)
\* tweets.find(t => t.id === id)
TweetWithId(id) ==
    IF \E i \in DOMAIN tweets : tweets[i].id = id
    THEN tweets[CHOOSE i \in DOMAIN tweets :
                   tweets[i].id = id /\ \A j \in DOMAIN tweets : tweets[j].id = id => i <= j]
    ELSE [id |-> NullId, content |-> NullText, summary_link |-> 0]

\* tweetConversations[id] || []
ConversationOf(id) ==
    IF id \in DOMAIN tweetConversations THEN tweetConversations[id] ELSE <<>>

\* {tweets.length > 0 ? <TweetCards .../> : ...}
TweetCardsRendered == PageReachable /\ Len(tweets) > 0

\* the card whose inline editor is shown: currentEditingTweetId === tweet.id
EditorShown == TweetCardsRendered /\ TweetWithId(currentEditingTweetId).id # NullId

\* (mutant) an open editor is closed first: opening another takes a second press
openTweetEditor_ClosesFirst(tweet) ==
    /\ currentEditingTweetId' =
          (IF currentEditingTweetId = NullId THEN tweet.id ELSE NullId)
    /\ pendingTweetUpdate' = NullText
    /\ signal' = "none"
    /\ UNCHANGED <<pipelineVars, loadingVars, tweetVars, modalVars, reqVars, alertOpen, toggles,
                   tweetConversations, rounds>>

\* (mutant) switching the editor keeps the pending proposal
openTweetEditor_KeepsProposal(tweet) ==
    /\ currentEditingTweetId' =
          (IF currentEditingTweetId = tweet.id THEN NullId ELSE tweet.id)
    /\ signal' = "none"
    /\ UNCHANGED <<pipelineVars, loadingVars, tweetVars, modalVars, reqVars, alertOpen, toggles,
                   tweetConversations, rounds, pendingTweetUpdate>>

openTweetEditor(tweet) ==
    /\ currentEditingTweetId' =
          (IF currentEditingTweetId = tweet.id THEN NullId ELSE tweet.id)
    /\ pendingTweetUpdate' = NullText
    /\ signal' = "none"
    /\ UNCHANGED <<pipelineVars, loadingVars, tweetVars, modalVars, reqVars, alertOpen, toggles,
                   tweetConversations, rounds>>

\* a card's "Edit with AI" button, rendered when currentEditingTweetId !== tweet.id
PressEditTweet ==
    /\ TweetCardsRendered
    /\ \E i \in DOMAIN tweets :
          /\ currentEditingTweetId # tweets[i].id
          /\ openTweetEditor(tweets[i])

\* (mutant) closing the editor keeps the pending proposal
PressCloseEditor_KeepsProposal ==
    /\ EditorShown
    /\ currentEditingTweetId' = NullId
    /\ signal' = "none"
    /\ UNCHANGED <<pipelineVars, loadingVars, tweetVars, modalVars, reqVars, alertOpen, toggles,
                   tweetConversations, rounds, pendingTweetUpdate>>

\* the editor's close button: onCloseEditor
PressCloseEditor ==
    /\ EditorShown
    /\ currentEditingTweetId' = NullId
    /\ pendingTweetUpdate' = NullText
    /\ signal' = "none"
    /\ UNCHANGED <<pipelineVars, loadingVars, tweetVars, modalVars, reqVars, alertOpen, toggles,
                   tweetConversations, rounds>>

\* (mutant) the request carries the pending proposal as the tweet's text
sendTweetMessage_SendsProposal(message) ==
    /\ signal' = "none"
    /\ IF currentEditingTweetId = NullId \/ TweetWithId(currentEditingTweetId).id = NullId
       THEN UNCHANGED reqEdit
       ELSE reqEdit' = Append(reqEdit,
                [tweet |-> [TweetWithId(currentEditingTweetId) EXCEPT
                               !.content = IF pendingTweetUpdate # NullText
                                           THEN pendingTweetUpdate ELSE @],
                 user_message |-> message,
                 conversation_history |-> ConversationOf(currentEditingTweetId)])
    /\ UNCHANGED <<pipelineVars, loadingVars, tweetVars, editVars, modalVars, alertOpen, toggles,
                   reqHighlights, reqSummaries, reqTweets, reqNewsletter>>

\* sendTweetMessage up to its await: the request carries the tweet and the
\* conversation of the render
sendTweetMessage(message) ==
    /\ signal' = "none"
    /\ IF currentEditingTweetId = NullId \/ TweetWithId(currentEditingTweetId).id = NullId
       THEN UNCHANGED reqEdit
       ELSE reqEdit' = Append(reqEdit,
                [tweet |-> TweetWithId(currentEditingTweetId),
                 user_message |-> message,
                 conversation_history |-> ConversationOf(currentEditingTweetId)])
    /\ UNCHANGED <<pipelineVars, loadingVars, tweetVars, editVars, modalVars, alertOpen, toggles,
                   reqHighlights, reqSummaries, reqTweets, reqNewsletter>>

\* the messages the user types
Messages == {"shorten it"}

\* the editor's message form: onSubmit calls onSendMessage(message) when the
\* message is not blank; the form and its Send button are never disabled
SubmitMessage ==
    /\ EditorShown
    /\ Len(reqEdit) < MaxInFlight
    /\ rounds + Len(reqEdit) < MaxRounds
    /\ \E m \in Messages : sendTweetMessage(m)

\* the lengths of the tweets POST /edit_tweet proposes
ProposalLengths == {MaxTweetLen, MaxTweetLen + 1}

\* the answer of POST /edit_tweet to a request: the history it was sent, the
\* user's message and its own reply
EditedHistory(req) ==
    req.conversation_history \o
        <<[role |-> "user", content |-> req.user_message],
          [role |-> "assistant", content |-> "ai_response"]>>

\* the proposal made for the tweet a request carried
ProposedTweet(req, n) ==
    [kind |-> "proposed", tid |-> req.tweet.id, gen |-> req.tweet.content.gen, len |-> n]

\* {...prev, [id]: history}
WithConversation(id, conversation) ==
    [t \in DOMAIN tweetConversations \cup {id} |->
        IF t = id THEN conversation ELSE tweetConversations[t]]

\* what the continuation of sendTweetMessage stores as the pending update
StoredProposal(req, outcome, n) ==
    IF outcome = "ok" THEN ProposedTweet(req, n) ELSE NullText

\* the rest of sendTweetMessage.  A body without new_tweet and
\* conversation_history stores undefined for both, which every reader
\* (`!pendingTweetUpdate`, `tweetConversations[id] || []`) takes for null / [].
sendTweetMessageDone(i, outcome, n) ==
    /\ Running
    /\ i \in DOMAIN reqEdit
    /\ reqEdit' = Without(reqEdit, i)
    /\ signal' = "none"
    /\ IF outcome = "neterr"
       THEN UNCHANGED editVars
       ELSE /\ pendingTweetUpdate' = StoredProposal(reqEdit[i], outcome, n)
            /\ tweetConversations' =
                  WithConversation(reqEdit[i].tweet.id,
                      IF outcome = "ok" THEN EditedHistory(reqEdit[i]) ELSE <<>>)
            /\ rounds' = rounds + 1
            /\ UNCHANGED currentEditingTweetId
    /\ UNCHANGED <<pipelineVars, loadingVars, tweetVars, modalVars, alertOpen, toggles,
                   reqHighlights, reqSummaries, reqTweets, reqNewsletter>>

\* TweetCards: pendingTweetUpdate && isLastMessage && isAIMessage, for the
\* conversation of the card whose editor is shown
hasUpdateInMessage ==
    /\ EditorShown
    /\ pendingTweetUpdate # NullText
    /\ Len(ConversationOf(currentEditingTweetId)) > 0
    /\ ConversationOf(currentEditingTweetId)[Len(ConversationOf(currentEditingTweetId))].role
          = "assistant"

\* (mutant) the Accept button without its length check
AcceptDisabled_Never == FALSE

\* (mutant) a proposal of exactly 280 characters cannot be accepted
AcceptDisabled_AtLimit == pendingTweetUpdate.len >= MaxTweetLen

\* disabled={pendingTweetUpdate.length > 280}
AcceptDisabled == pendingTweetUpdate.len > MaxTweetLen

\* (mutant) the accepted text replaces the content of every tweet
updatedTweets_All ==
    [i \in DOMAIN tweets |-> [tweets[i] EXCEPT !.content = pendingTweetUpdate]]

\* tweets.map(tweet => tweet.id === currentEditingTweetId
\*                       ? { ...tweet, content: pendingTweetUpdate } : tweet)
updatedTweets ==
    [i \in DOMAIN tweets |->
        IF tweets[i].id = currentEditingTweetId
        THEN [tweets[i] EXCEPT !.content = pendingTweetUpdate]
        ELSE tweets[i]]

\* (mutant) accepting also closes the editor
acceptTweetUpdate_ClosesEditor ==
    /\ signal' = "none"
    /\ IF currentEditingTweetId = NullId \/ pendingTweetUpdate = NullText
       THEN UNCHANGED <<tweets, pendingTweetUpdate, currentEditingTweetId>>
       ELSE /\ tweets' = updatedTweets
            /\ pendingTweetUpdate' = NullText
            /\ currentEditingTweetId' = NullId
    /\ UNCHANGED <<pipelineVars, loadingVars, tweetsUndefined, tweetGen, modalVars,
                   reqVars, alertOpen, toggles, tweetConversations, rounds>>

acceptTweetUpdate ==
    /\ signal' = "none"
    /\ IF currentEditingTweetId = NullId \/ pendingTweetUpdate = NullText
       THEN UNCHANGED <<tweets, pendingTweetUpdate>>
       ELSE /\ tweets' = updatedTweets
            /\ pendingTweetUpdate' = NullText
    /\ UNCHANGED <<pipelineVars, loadingVars, tweetsUndefined, tweetGen, modalVars,
                   reqVars, alertOpen, toggles, currentEditingTweetId, tweetConversations, rounds>>

\* the "Accept" button under the suggested tweet
PressAccept ==
    /\ hasUpdateInMessage
    /\ ~AcceptDisabled
    /\ acceptTweetUpdate

PressDisabledAccept ==
    /\ hasUpdateInMessage
    /\ AcceptDisabled
    /\ Dropped("disabled:Accept")

\* (mutant) rejecting also drops the conversation of the edited tweet
rejectTweetUpdate_DropsConversation ==
    /\ pendingTweetUpdate' = NullText
    /\ tweetConversations' = WithConversation(currentEditingTweetId, <<>>)
    /\ signal' = "none"
    /\ UNCHANGED <<pipelineVars, loadingVars, tweetVars, modalVars, reqVars, alertOpen, toggles,
                   currentEditingTweetId, rounds>>

rejectTweetUpdate ==
    /\ pendingTweetUpdate' = NullText
    /\ signal' = "none"
    /\ UNCHANGED <<pipelineVars, loadingVars, tweetVars, modalVars, reqVars, alertOpen, toggles,
                   currentEditingTweetId, tweetConversations, rounds>>

\* the "Reject" button under the suggested tweet
PressReject ==
    /\ hasUpdateInMessage
    /\ rejectTweetUpdate

(* ----------------------- EditorModal: applyEdit ----------------------- *)
\* the instructions the user types into the modal
Instructions == {<<"a">>, <<Quotation, Backslash>>}

\* applyEdit up to its await: the request carries the text and the history
\* of the render
applyEdit(instruction) ==
    /\ modalLoading' = TRUE
    /\ reqApply' = Append(reqApply, [text |-> text, instruction |-> instruction,
                                     prior_history |-> history])
    /\ signal' = "none"
    /\ UNCHANGED <<pipelineVars, loadingVars, tweetVars, editVars, reqVars, alertOpen, toggles,
                   editorOpen, editTarget, editorText, text, sessionId, history, localStorage>>

\* the modal's "Apply" button, disabled={loading}
PressApply ==
    /\ Running
    /\ editorOpen
    /\ ~modalLoading
    /\ Len(history.turns) < 2 * MaxApplies
    /\ \E instruction \in Instructions : applyEdit(instruction)

\* the history POST /edit answers with: the history sent, the instruction as
\* the user's turn and the assistant's turn
AppliedHistory(req) ==
    [def |-> TRUE,
     turns |-> req.prior_history.turns \o
                  <<[role |-> "user", content |-> req.instruction],
                    [role |-> "assistant", content |-> <<"]", Quotation>>]>>]

\* the rest of applyEdit.  outcome "neterr" stands for a rejected fetch and
\* for !res.ok, which throws: only `finally` runs.  A body without history
\* makes setHistory(undefined).  The effect on [history, sessionId] then
\* writes the new history to localStorage.
applyEditDone(i, outcome) ==
    /\ Running
    /\ i \in DOMAIN reqApply
    /\ reqApply' = Without(reqApply, i)
    /\ modalLoading' = FALSE
    /\ signal' = "none"
    /\ history' = (IF outcome = "ok" THEN AppliedHistory(reqApply[i])
                   ELSE IF outcome = "badbody" THEN UndefinedHistory
                   ELSE history)
    /\ text' = (IF outcome = "ok" THEN EditedHtml
                ELSE IF outcome = "badbody" THEN UndefinedText
                ELSE text)
    /\ localStorage' = Persisted(localStorage, sessionId, history')
    /\ UNCHANGED <<pipelineVars, loadingVars, tweetVars, editVars, reqVars, alertOpen, toggles,
                   editorOpen, editTarget, editorText, sessionId>>

ApplyArrives == \E i \in DOMAIN reqApply, outcome \in Outcomes : applyEditDone(i, outcome)

(* ------------------------------ page load ----------------------------- *)
\* the browser loads the page again: every useState starts over, a session
\* id is drawn, and the mounting EditorModal runs its two effects, the load
\* from localStorage and the write of what the history then is.  The answers
\* to the requests of the page that is gone reach nobody.
PageLoad(sid) ==
    /\ articles' = <<>> /\ selectedArticles' = <<>> /\ summary' = EmptyText
    /\ tweets' = <<>> /\ tweetsUndefined' = FALSE /\ newsletterHtml' = EmptyText
    /\ loadingHighlights' = FALSE /\ loadingSummaries' = FALSE
    /\ loadingTweets' = FALSE /\ loadingNewsletter' = FALSE
    /\ summariesMode' = FALSE /\ pageIndex' = 0 /\ isPaginated' = TRUE
    /\ highlights' = <<>>
    /\ currentEditingTweetId' = NullId /\ tweetConversations' = <<>>
    /\ pendingTweetUpdate' = NullText
    /\ editorOpen' = FALSE /\ editTarget' = "summary" /\ editorText' = EmptyText
    /\ text' = EmptyText
    /\ alertOpen' = FALSE
    /\ reqHighlights' = 0 /\ reqSummaries' = <<>> /\ reqTweets' = <<>>
    /\ reqNewsletter' = 0 /\ reqEdit' = <<>>
    /\ modalLoading' = FALSE /\ reqApply' = <<>>
    /\ sessionId' = sid
    /\ history' = Loaded(localStorage, sid)
    /\ localStorage' = Persisted(localStorage, sid, history')
    /\ signal' = "none"
    /\ UNCHANGED <<tweetGen, rounds, toggles>>

PageLoadAny == \E sid \in SessionIds : PageLoad(sid)

(* -------------------------- specifications ---------------------------- *)
\* the article lists POST /aggregate answers with in Spec
FetchedLists == {Iota(n) : n \in 0..MaxArticles}

\* the answers to the two requests of fetchAndSummarize: /aggregate fails, or
\* it answers with a list and /highlights answers in one of the three ways
FetchResponses(lists) ==
    {[agg |-> a, arts |-> <<>>, sum |-> "ok"] : a \in Outcomes \ {"ok"}}
        \cup {[agg |-> "ok", arts |-> l, sum |-> o] : l \in lists, o \in Outcomes}

FetchArrives ==
    \E r \in FetchResponses(FetchedLists) : fetchAndSummarizeDone(r.agg, r.arts, r.sum)

\* the answers to /summaries_selected for the articles sent
SummariesResponses(sent) ==
    {[outcome |-> o, items |-> <<>>] : o \in Outcomes \ {"ok"}}
        \cup {[outcome |-> "ok", items |-> l] : l \in Survivors(sent)}

SummariesArrive ==
    \E i \in DOMAIN reqSummaries :
        \E r \in SummariesResponses(reqSummaries[i]) : getHighlightsDone(i, r.outcome, r.items)

TweetsArrive == \E i \in DOMAIN reqTweets, outcome \in Outcomes : makeTweetsDone(i, outcome)

NewsletterArrives == \E outcome \in Outcomes : makeNewsletterDone(outcome)

EditArrives ==
    \E i \in DOMAIN reqEdit, outcome \in Outcomes, n \in ProposalLengths :
        sendTweetMessageDone(i, outcome, n)

\* --- Spec: the stages of the generation pipeline (fetch, select all or none,
\* summarize, posts, newsletter, reset) with every outcome of every backend call and the
\* presses on their buttons while these are disabled
Next ==
    \/ PressGetHighlights
    \/ PressDisabledGetHighlights
    \/ FetchArrives
    \/ PressGetSummaries
    \/ PressDisabledGetSummaries
    \/ SummariesArrive
    \/ PressReset
    \/ PressSelectAll
    \/ PressDeselectAll
    \/ PressGenerateTweets
    \/ PressDisabledGenerateTweets
    \/ TweetsArrive
    \/ PressGenerateNewsletter
    \/ PressDisabledGenerateNewsletter
    \/ NewsletterArrives

Spec == Init /\ [][Next]_vars

\* --- SpecLive: Spec with every outstanding request answered in the end: the
\* browser resolves or rejects every fetch, and the continuation of the
\* handler then runs whenever the page is there to run it
Answered ==
    /\ WF_vars(FetchArrives)
    /\ WF_vars(SummariesArrive)
    /\ WF_vars(TweetsArrive)
    /\ WF_vars(NewsletterArrives)

SpecLive == Init /\ [][Next]_vars /\ Answered

\* --- SpecSelect: the selection limit, on a fetch of one article more than
\* getHighlights accepts
FetchArrivesOverLimit ==
    \E r \in FetchResponses({Iota(SelectionLimit + 1)}) :
        fetchAndSummarizeDone(r.agg, r.arts, r.sum)

NextSelect ==
    \/ PressGetHighlights
    \/ FetchArrivesOverLimit
    \/ PressGetSummaries
    \/ DismissAlert
    \/ SummariesArrive
    \/ PressReset
    \/ PressArticleCheckboxCounted
    \/ PressDisabledGetSummaries
    \/ PressSelectAll
    \/ PressDeselectAll

SpecSelect == Init /\ [][NextSelect]_vars

\* --- SpecEdit: the edit protocol (inline tweet editor, modal editor), on a
\* pipeline whose fetch and summaries succeed
FetchArrivesOk == fetchAndSummarizeDone("ok", Iota(MaxArticles), "ok")

SummariesArriveOk ==
    \E i \in DOMAIN reqSummaries : getHighlightsDone(i, "ok", reqSummaries[i])

NextEdit ==
    \/ PressGetHighlights
    \/ FetchArrivesOk
    \/ PressGetSummaries
    \/ SummariesArriveOk
    \/ PressReset
    \/ PressGenerateTweets
    \/ TweetsArrive
    \/ PressEditTweet
    \/ PressCloseEditor
    \/ SubmitMessage
    \/ EditArrives
    \/ PressAccept
    \/ PressDisabledAccept
    \/ PressReject

SpecEdit == Init /\ [][NextEdit]_vars

\* the tweet editor together with the newsletter and its modal editor
NextModal ==
    \/ PressGetHighlights
    \/ FetchArrivesOk
    \/ PressGetSummaries
    \/ SummariesArriveOk
    \/ PressGenerateTweets
    \/ TweetsArrive
    \/ PressGenerateNewsletter
    \/ NewsletterArrives
    \/ PressEditNewsletter
    \/ CloseEditorModal
    \/ TypeText
    \/ UseResult
    \/ PressEditTweet
    \/ PressCloseEditor
    \/ PressReset

SpecModal == Init /\ [][NextModal]_vars

\* the article list and its selection: fetches of every list, the checkboxes,
\* Select All / Deselect All, reset and the summaries of the selection
NextArticles ==
    \/ PressGetHighlights
    \/ FetchArrives
    \/ PressArticleCheckbox
    \/ PressSelectAll
    \/ PressDeselectAll
    \/ PressGetSummaries
    \/ SummariesArrive
    \/ PressReset

SpecArticles == Init /\ [][NextArticles]_vars

\* --- SpecStore: the modal editor of the newsletter, its history and the
\* mirror of the history in localStorage, over page loads
NewsletterArrivesOk == makeNewsletterDone("ok")

NextStore ==
    \/ PressGetHighlights
    \/ FetchArrivesOk
    \/ PressGetSummaries
    \/ SummariesArriveOk
    \/ PressGenerateNewsletter
    \/ NewsletterArrivesOk
    \/ PressEditNewsletter
    \/ PressApply
    \/ ApplyArrives
    \/ CloseEditorModal
    \/ UseResult
    \/ PageLoadAny

SpecStore == Init /\ [][NextStore]_vars

\* --- SpecEditors: the two editors, the inline editor of the tweets and the
\* modal editor of the newsletter, with the requests each of them sends
TweetsArriveOk == \E i \in DOMAIN reqTweets : makeTweetsDone(i, "ok")

EditArrivesOk == \E i \in DOMAIN reqEdit : sendTweetMessageDone(i, "ok", MaxTweetLen)

ApplyArrivesOk == \E i \in DOMAIN reqApply : applyEditDone(i, "ok")

\* "Apply" pressed with the instruction the modal starts with
PressApplyDefault ==
    /\ Running
    /\ editorOpen
    /\ ~modalLoading
    /\ Len(history.turns) < 2 * MaxApplies
    /\ applyEdit(<<"a">>)

NextEditors ==
    \/ PressGetHighlights
    \/ FetchArrivesOk
    \/ PressGetSummaries
    \/ SummariesArriveOk
    \/ PressGenerateTweets
    \/ TweetsArriveOk
    \/ PressGenerateNewsletter
    \/ NewsletterArrivesOk
    \/ PressEditNewsletter
    \/ PressApplyDefault
    \/ ApplyArrivesOk
    \/ UseResult
    \/ PressEditTweet
    \/ SubmitMessage
    \/ EditArrivesOk

SpecEditors == Init /\ [][NextEditors]_vars

\* --- SpecPager: the paginator over the summaries of a fetch of as many
\* articles as getHighlights accepts
FetchArrivesAtLimit == fetchAndSummarizeDone("ok", Iota(SelectionLimit), "ok")

NextPager ==
    \/ PressGetHighlights
    \/ FetchArrivesAtLimit
    \/ PressGetSummaries
    \/ SummariesArrive
    \/ PressPrevious
    \/ PressNext
    \/ TogglePaginated
    \/ PressReset

SpecPager == Init /\ [][NextPager]_vars

(* ------------------------------ claims -------------------------------- *)
\* everything of the page but the alert and the record of the last gesture
pageVars == <<pipelineVars, loadingVars, tweetVars, editVars, modalVars, reqVars>>

\* C1 (as stated): whenever summarizeSelected is invoked with 0 or with more
\* than 5 selected articles, no request is sent, SelectionLimitExceeded is
\* raised (the alert) and no state variable changes.
C1_Original ==
    [][(PressGetSummaries \/ PressDisabledGetSummaries)
         /\ (Len(selectedArticles) = 0 \/ Len(selectedArticles) > SelectionLimit)
       => alertOpen' /\ UNCHANGED pageVars]_vars

\* C1 (amended): when getHighlights runs with more than 5 selected articles it
\* raises the alert, sends no request and changes no state; with 0 selected
\* its button is disabled, so a press runs nothing: no request, no state
\* change, and no alert either; and every /summaries_selected request that is
\* sent is sent with 1 to 5 articles selected.
C1_SelectionLimit ==
    [][/\ (PressGetSummaries /\ Len(selectedArticles) > SelectionLimit
             => alertOpen' /\ UNCHANGED pageVars)
       /\ (PressDisabledGetSummaries /\ Len(selectedArticles) = 0
             => ~alertOpen' /\ UNCHANGED pageVars)
       /\ (Len(reqSummaries') > Len(reqSummaries)
             => Len(selectedArticles) \in 1..SelectionLimit)]_vars

\* C1 witness: the alert is up over a selection of more than 5 articles
C1_Witness == alertOpen /\ Len(selectedArticles) > SelectionLimit

\* C2: a response to sendMessage that arrives when the entity it was sent for
\* is no longer the active edit target is discarded: it creates no proposal
\* and changes no conversation and no committed content.
C2_StaleResponseDiscarded ==
    [][EditArrives /\ (\A i \in DOMAIN reqEdit : reqEdit[i].tweet.id # currentEditingTweetId)
       => UNCHANGED <<pendingTweetUpdate, tweetConversations, tweets>>]_vars

\* C3: acceptProposal on a tweet whose pending proposal is longer than 280
\* characters is refused: the committed tweets are unchanged and the proposal
\* is still pending afterwards.
C3_LongProposalRefused ==
    [][(PressAccept \/ PressDisabledAccept) /\ pendingTweetUpdate.len > MaxTweetLen
       => tweets' = tweets /\ pendingTweetUpdate' = pendingTweetUpdate]_vars

\* C3 witness: Accept was pressed on a shown proposal of more than 280
\* characters, and the proposal is still pending
C3_Witness ==
    /\ signal = "disabled:Accept"
    /\ hasUpdateInMessage
    /\ pendingTweetUpdate.len > MaxTweetLen

\* the arrival of a failed answer to a stage's request: a rejected fetch, or
\* a body without the field the handler reads
FailedArrival ==
    \/ \E r \in FetchResponses(FetchedLists) :
          /\ r.agg # "ok" \/ r.sum # "ok"
          /\ fetchAndSummarizeDone(r.agg, r.arts, r.sum)
    \/ \E i \in DOMAIN reqSummaries, o \in Outcomes \ {"ok"} : getHighlightsDone(i, o, <<>>)
    \/ \E i \in DOMAIN reqTweets, o \in Outcomes \ {"ok"} : makeTweetsDone(i, o)
    \/ \E o \in Outcomes \ {"ok"} : makeNewsletterDone(o)

\* C4: for every stage and every kind of failed backend call, the failed call
\* leaves articles, selection, summary, highlights, tweets, newsletter and
\* cursor as they were; only the stage's in-flight flag is cleared.
C4_FailureLeavesData ==
    [][FailedArrival => UNCHANGED <<pipelineVars, tweets, tweetsUndefined>>]_vars

\* C5: at no time are two edit requests outstanding for the same entity.
C5_OneEditRequestPerEntity ==
    \A i, j \in DOMAIN reqEdit : i # j => reqEdit[i].tweet.id # reqEdit[j].tweet.id

\* C6: a press on a stage's button while that stage's in-flight flag is set
\* sends no request and changes no state, and at most one request of each
\* stage is outstanding at any time.
C6_BusyIsNoOp ==
    /\ [](/\ reqHighlights <= 1
          /\ Len(reqSummaries) <= 1
          /\ Len(reqTweets) <= 1
          /\ reqNewsletter <= 1)
    /\ [][/\ (PressGetHighlights \/ PressDisabledGetHighlights) /\ loadingHighlights
                => UNCHANGED pageVars
          /\ (PressGetSummaries \/ PressDisabledGetSummaries) /\ loadingSummaries
                => UNCHANGED pageVars
          /\ (PressGenerateTweets \/ PressDisabledGenerateTweets) /\ loadingTweets
                => UNCHANGED pageVars
          /\ (PressGenerateNewsletter \/ PressDisabledGenerateNewsletter) /\ loadingNewsletter
                => UNCHANGED pageVars]_vars

\* C6 witness: the newsletter's "Generate" was pressed while its request is
\* outstanding, and that one request is still the only one
C6_Witness ==
    /\ signal = "disabled:GenerateNewsletter"
    /\ loadingNewsletter
    /\ Len(highlights) > 0
    /\ reqNewsletter = 1

\* C7: after reset the session is Idle with articles, highlights, tweets,
\* newsletter and selection empty and the cursor at 0, and there is no active
\* edit target, no pending proposal and no stored conversation.
C7_ResetClearsAll ==
    [][PressReset =>
         /\ ~summariesMode' /\ summary' = EmptyText
         /\ articles' = <<>> /\ highlights' = <<>> /\ tweets' = <<>>
         /\ newsletterHtml' = EmptyText /\ selectedArticles' = <<>> /\ pageIndex' = 0
         /\ currentEditingTweetId' = NullId
         /\ pendingTweetUpdate' = NullText
         /\ \A t \in DOMAIN tweetConversations' : tweetConversations'[t] = <<>>]_vars

\* C8: on a fetch of 6 articles, all selected, every attempt to summarize
\* raises SelectionLimitExceeded and sends nothing for as long as 6 are
\* selected; with 1 to 5 selected the request is sent, and its successful
\* answer puts the session in SummariesReady with the items answered.
C8_SixArticlesScenario ==
    [][/\ (PressGetSummaries \/ PressDisabledGetSummaries)
             /\ Len(selectedArticles) = SelectionLimit + 1 /\ ~loadingSummaries
          => alertOpen' /\ UNCHANGED pageVars
       /\ (PressGetSummaries \/ PressDisabledGetSummaries)
             /\ Len(selectedArticles) = SelectionLimit + 1
          => reqSummaries' = reqSummaries /\ ~summariesMode'
       /\ (PressGetSummaries \/ PressDisabledGetSummaries)
             /\ Len(selectedArticles) \in 1..SelectionLimit /\ ~loadingSummaries
          => reqSummaries' = Append(reqSummaries, selectedArticleData) /\ ~alertOpen'
       /\ \A i \in DOMAIN reqSummaries : \A items \in Survivors(reqSummaries[i]) :
             getHighlightsDone(i, "ok", items) => summariesMode' /\ highlights' = items]_vars

\* C8 witness: of the 6 fetched articles some but not all are selected, and
\* their summaries have arrived: the session is in SummariesReady
C8_Witness ==
    /\ Len(articles) = SelectionLimit + 1
    /\ Len(selectedArticles) \in 1..SelectionLimit
    /\ summariesMode
    /\ Len(highlights) > 0

\* C9: the content of a tweet changes only when a proposal is accepted in
\* that tweet's editor, or when the whole list is replaced by a tweets
\* response or cleared by reset; the arrival of an edit response changes no
\* tweet.
C9_CommittedOnlyByAccept ==
    [][/\ tweets' # tweets =>
            \/ PressReset
            \/ TweetsArrive
            \/ /\ PressAccept
               /\ DOMAIN tweets' = DOMAIN tweets
               /\ \A k \in DOMAIN tweets :
                     tweets'[k] # tweets[k] =>
                        /\ tweets[k].id = currentEditingTweetId
                        /\ tweets'[k] = [tweets[k] EXCEPT !.content = pendingTweetUpdate]
       /\ EditArrives => tweets' = tweets /\ tweetsUndefined' = tweetsUndefined]_vars

\* C9 witness: one proposal was accepted into a tweet, the other tweet still
\* has its generated text, and a further proposal has arrived and is pending
C9_Witness ==
    /\ pendingTweetUpdate # NullText
    /\ \E k \in DOMAIN tweets : tweets[k].content.kind = "proposed"
    /\ \E k \in DOMAIN tweets : tweets[k].content.kind = "generated"

\* C10: at most one entity is an active edit target: the inline tweet editor
\* and the modal editor are never active together.
C10_OneActiveTarget == ~(editorOpen /\ currentEditingTweetId # NullId)


\* C11: pressing Edit with AI on tweet B while tweet A's editor is open with
\* an unresolved proposal makes B the edited tweet, leaves no pending
\* proposal and leaves every tweet, A included, as it was.
C11_SwitchDiscardsProposal ==
    [][PressEditTweet /\ EditorShown /\ pendingTweetUpdate # NullText
         => /\ currentEditingTweetId' \notin {NullId, currentEditingTweetId}
            /\ \E k \in DOMAIN tweets' : tweets'[k].id = currentEditingTweetId'
            /\ pendingTweetUpdate' = NullText
            /\ tweets' = tweets]_vars

\* C11 witness: tweet 1 was discussed and still has its generated text, the
\* editor is now on another tweet and nothing is pending
C11_Witness ==
    /\ EditorShown
    /\ currentEditingTweetId # 1
    /\ Len(ConversationOf(1)) > 0
    /\ TweetWithId(1).content.kind = "generated"
    /\ pendingTweetUpdate = NullText
    /\ reqEdit = <<>>

\* C12: Reject clears the pending proposal and changes nothing else of the
\* page, no tweet and no conversation; a message sent afterwards carries the
\* whole stored conversation of the edited tweet.
C12_RejectKeepsConversation ==
    [][/\ PressReject =>
            /\ pendingTweetUpdate' = NullText
            /\ UNCHANGED <<pipelineVars, loadingVars, tweetVars, modalVars, reqVars,
                           currentEditingTweetId, tweetConversations>>
       /\ SubmitMessage =>
            /\ Len(reqEdit') = Len(reqEdit) + 1
            /\ reqEdit'[Len(reqEdit')].tweet.id = currentEditingTweetId
            /\ reqEdit'[Len(reqEdit')].conversation_history
                  = ConversationOf(currentEditingTweetId)]_vars

\* C12 witness: after a proposal was turned down without any tweet being
\* changed, a message is on its way with the earlier conversation
C12_Witness ==
    /\ pendingTweetUpdate = NullText
    /\ \A k \in DOMAIN tweets : tweets[k].content.kind = "generated"
    /\ \E i \in DOMAIN reqEdit :
          /\ reqEdit[i].tweet.id = currentEditingTweetId
          /\ Len(reqEdit[i].conversation_history) > 0
          /\ reqEdit[i].conversation_history = ConversationOf(currentEditingTweetId)


\* C20: closing the inline editor leaves no edited tweet and no pending
\* proposal, and changes no tweet, nor the summary or the newsletter.
C20_CloseDiscardsProposal ==
    [][PressCloseEditor
         => /\ currentEditingTweetId' = NullId
            /\ pendingTweetUpdate' = NullText
            /\ UNCHANGED <<tweets, tweetsUndefined, summary, newsletterHtml>>]_vars

\* C20 witness: the editor was closed after a proposal had been made for
\* tweet 1 and not accepted
C20_Witness ==
    /\ currentEditingTweetId = NullId
    /\ pendingTweetUpdate = NullText
    /\ Len(ConversationOf(1)) > 0
    /\ \A k \in DOMAIN tweets : tweets[k].content.kind = "generated"
    /\ Len(tweets) > 0


\* C13: every selected link is the link of an article of the current list,
\* whatever fetch, reset, checkbox or Select All / Deselect All did last.
C13_SelectionWithinArticles == Range(selectedArticles) \subseteq Range(articles)

\* C13 witness: after a fetch of several articles only some are selected,
\* in an order of the user's making
C13_Witness ==
    /\ Len(articles) > 1
    /\ Len(selectedArticles) > 0
    /\ selectedArticles # articles


\* C14: when a fetch succeeds with an empty article list the page is out of
\* summariesMode with the "no articles" notice shown, which the page that
\* has not fetched yet (no summary) does not show.
C14_EmptyFetchShowsNotice ==
    [][fetchAndSummarizeDone("ok", <<>>, "ok")
         => /\ NoArticlesNoticeShown'
            /\ summary' = NoArticlesMessage
            /\ articles' = <<>>
            /\ ~summariesMode'
            /\ hasHighlights']_vars

\* C14 witness: the notice is shown after a fetch that found nothing
C14_Witness ==
    /\ NoArticlesNoticeShown
    /\ summary = NoArticlesMessage
    /\ reqHighlights = 0 /\ ~loadingHighlights

\* C15: a /tweets request and a /newsletter request are sent only from a
\* page whose highlight list is not empty, and carry that list.
C15_GenerateNeedsHighlights ==
    [][/\ Len(reqTweets') > Len(reqTweets)
            => Len(highlights) > 0 /\ reqTweets'[Len(reqTweets')] = highlights
       /\ reqNewsletter' > reqNewsletter => Len(highlights) > 0]_vars

\* C15 witness: a /tweets request is out for a list of highlights
C15_Witness ==
    /\ Len(reqTweets) > 0
    /\ Len(reqTweets[1]) > 0
    /\ loadingTweets

\* C19: after a successful fetch the article list is the returned list, every
\* returned link is selected and nothing else, and the page is in the
\* articles stage (a summary shown, summariesMode off).
C19_FetchStoresAndSelectsAll ==
    [][\A arts \in FetchedLists :
          fetchAndSummarizeDone("ok", arts, "ok")
             => /\ articles' = arts
                /\ Len(selectedArticles') = Len(arts)
                /\ Range(selectedArticles') = Range(arts)
                /\ hasHighlights'
                /\ ~summariesMode']_vars

\* C19 witness: two articles were fetched and both are selected
C19_Witness ==
    /\ Len(articles) = MaxArticles
    /\ selectedArticles = articles
    /\ summary = SummaryMarkdown
    /\ ~summariesMode


\* C16 (as claimed): when the cursor is at index 4 of a 5-item highlight list
\* and the list is replaced by a 2-item list, the cursor is left at index 1.
C16_Original ==
    [][SummariesArrive /\ Len(highlights) = 5 /\ pageIndex = 4 /\ Len(highlights') = 2
         => pageIndex' = 1]_vars

\* C16 (amended): when the cursor is at index 4 of a 5-item highlight list
\* and the list is replaced by a 2-item list, the cursor is left at index 0.
C16_ReplaceResetsCursor ==
    [][SummariesArrive /\ Len(highlights) = 5 /\ pageIndex = 4 /\ Len(highlights') = 2
         => pageIndex' = 0 /\ summariesMode']_vars

\* C16 witness: the cursor is at index 4 of a 5-item list while a summaries
\* request that will replace the list is outstanding
C16_Witness ==
    /\ Len(highlights) = 5
    /\ pageIndex = 4
    /\ Len(reqSummaries) = 1

\* C17: the cursor is an index of the highlight list, and 0 when the list is
\* empty: never negative, never past the last item.
C17_CursorInRange ==
    /\ pageIndex \in 0..Max(0, Len(highlights) - 1)
    /\ Len(highlights) = 0 => pageIndex = 0

\* C17 witness: the cursor is on the last of several highlights
C17_Witness ==
    /\ summariesMode
    /\ Len(highlights) > 1
    /\ pageIndex = Len(highlights) - 1


C21_ProposalForActiveTarget ==
    pendingTweetUpdate # NullText
       => /\ currentEditingTweetId # NullId
          /\ pendingTweetUpdate.tid = currentEditingTweetId

\* an idle page: nothing fetched, no stage has a result
Idle ==
    /\ summary = EmptyText /\ ~summariesMode /\ articles = <<>>
    /\ highlights = <<>> /\ tweets = <<>> /\ newsletterHtml = EmptyText

\* C28: the answer to a summaries, tweets or newsletter request that arrives
\* on a page which was reset after the request was sent is discarded:
\* highlights, tweets and newsletter stay empty and the page stays idle.
C28_StaleStageResultDiscarded ==
    [][(SummariesArrive \/ TweetsArrive \/ NewsletterArrives) /\ Idle
         => /\ highlights' = <<>> /\ tweets' = <<>> /\ ~tweetsUndefined'
            /\ newsletterHtml' = EmptyText
            /\ ~summariesMode' /\ summary' = EmptyText]_vars

\* C29: when /summaries_selected answers with a list, the list is stored, the
\* page is in summariesMode and the cursor is 0, wherever it was.
C29_SummariesStored ==
    [][\A i \in DOMAIN reqSummaries : \A items \in Survivors(reqSummaries[i]) :
          getHighlightsDone(i, "ok", items)
             => highlights' = items /\ summariesMode' /\ pageIndex' = 0]_vars

\* C29 witness: a list of summaries has arrived and the first is shown
C29_Witness ==
    /\ summariesMode
    /\ Len(highlights) = SelectionLimit
    /\ pageIndex = 0
    /\ reqSummaries = <<>> /\ ~loadingSummaries

\* C30: each stage's in-flight flag is set exactly while a request of the
\* stage is outstanding.
C30_FlagIffOutstanding ==
    /\ loadingHighlights <=> reqHighlights > 0
    /\ loadingSummaries <=> Len(reqSummaries) > 0
    /\ loadingTweets <=> Len(reqTweets) > 0
    /\ loadingNewsletter <=> reqNewsletter > 0

\* C30 witness: requests of two stages are outstanding after a reset, and
\* their flags are set
C30_Witness ==
    /\ loadingSummaries /\ Len(reqSummaries) = 1
    /\ loadingHighlights /\ reqHighlights = 1
    /\ ~loadingTweets /\ ~loadingNewsletter


\* C22: sending a message appends the user's turn to the conversation of the
\* edited tweet at once, before the answer: the conversation ends with that
\* turn as soon as the request is out.
C22_OptimisticUserTurn ==
    [][SubmitMessage /\ Len(reqEdit') > Len(reqEdit)
         => /\ currentEditingTweetId \in DOMAIN tweetConversations'
            /\ Len(tweetConversations'[currentEditingTweetId]) > 0
            /\ LET c == tweetConversations'[currentEditingTweetId]
               IN  c[Len(c)] = [role |-> "user",
                                content |-> reqEdit'[Len(reqEdit')].user_message]]_vars

\* C23: the conversation of a tweet only grows: every turn that was in it is
\* still in it, at the same position, after any step.
C23_ConversationOnlyGrows ==
    [][\A t \in DOMAIN tweetConversations :
          /\ t \in DOMAIN tweetConversations'
          /\ Len(tweetConversations[t]) <= Len(tweetConversations'[t])
          /\ SubSeq(tweetConversations'[t], 1, Len(tweetConversations[t]))
                = tweetConversations[t]]_vars


\* C26: a pending proposal of at most 280 characters, 280 included, can be
\* accepted; accepting makes it the content of the edited tweet, leaves the
\* other tweets alone and leaves no pending proposal; acceptTweetUpdate
\* without an edited tweet or without a proposal changes nothing.
C26_AcceptCommits ==
    /\ [](hasUpdateInMessage /\ pendingTweetUpdate.len <= MaxTweetLen => ~AcceptDisabled)
    /\ [][/\ PressAccept =>
               /\ pendingTweetUpdate.len <= MaxTweetLen
               /\ DOMAIN tweets' = DOMAIN tweets
               /\ \A k \in DOMAIN tweets :
                     tweets'[k] = IF tweets[k].id = currentEditingTweetId
                                  THEN [tweets[k] EXCEPT !.content = pendingTweetUpdate]
                                  ELSE tweets[k]
               /\ pendingTweetUpdate' = NullText
          /\ acceptTweetUpdate /\ (currentEditingTweetId = NullId \/ pendingTweetUpdate = NullText)
               => UNCHANGED <<tweets, pendingTweetUpdate>>]_vars

\* C26 witness: a proposal of exactly 280 characters has become the content
\* of the edited tweet and nothing is pending
C26_Witness ==
    /\ EditorShown
    /\ TweetWithId(currentEditingTweetId).content.kind = "proposed"
    /\ TweetWithId(currentEditingTweetId).content.len = MaxTweetLen
    /\ pendingTweetUpdate = NullText

C25_Original ==
    [][/\ SubmitMessage /\ Len(reqEdit') > Len(reqEdit)
            => reqEdit'[Len(reqEdit')].tweet.content
                  = TweetWithId(currentEditingTweetId).content
       /\ PressApplyDefault
            => reqApply'[Len(reqApply')].text = EditorTextOf(editTarget)]_vars

\* C25 (amended): a request of the tweet editor carries the committed content
\* of the edited tweet, also while a proposal is pending; a request of the
\* modal editor carries the text in the modal's textarea.
C25_RequestText ==
    [][/\ SubmitMessage /\ Len(reqEdit') > Len(reqEdit)
            => reqEdit'[Len(reqEdit')].tweet.content
                  = TweetWithId(currentEditingTweetId).content
       /\ PressApplyDefault
            => reqApply'[Len(reqApply')].text = text]_vars

\* C25 witness: a request for a tweet was sent while a proposal was pending
\* and carries the tweet's generated text, and a request of the modal carries
\* the result of an earlier edit that was not committed
C25_Witness ==
    /\ pendingTweetUpdate # NullText
    /\ \E i \in DOMAIN reqEdit :
          /\ reqEdit[i].tweet.id = pendingTweetUpdate.tid
          /\ reqEdit[i].tweet.content = TweetWithId(pendingTweetUpdate.tid).content
          /\ reqEdit[i].tweet.content.kind = "generated"
          /\ Len(reqEdit[i].conversation_history) > 0
    /\ \E j \in DOMAIN reqApply :
          /\ reqApply[j].text = EditedHtml
          /\ newsletterHtml = GeneratedHtml


\* C24: conversations are kept per session and tweet: a message for one tweet
\* is sent with the turns of that tweet only, its answer changes the
\* conversation of that tweet only, and localStorage holds the conversation
\* of every tweet that has one, each under a key of its own.
C24_ConversationsPerEntity ==
    /\ [][SubmitMessage /\ Len(reqEdit') > Len(reqEdit)
             => /\ reqEdit'[Len(reqEdit')].tweet.id = currentEditingTweetId
                /\ reqEdit'[Len(reqEdit')].conversation_history
                      = ConversationOf(currentEditingTweetId)]_vars
    /\ [][\A i \in DOMAIN reqEdit, outcome \in Outcomes, n \in ProposalLengths :
             sendTweetMessageDone(i, outcome, n)
                => \A t \in DOMAIN tweetConversations :
                      t # reqEdit[i].tweet.id
                         => /\ t \in DOMAIN tweetConversations'
                            /\ tweetConversations'[t] = tweetConversations[t]]_vars
    /\ [](LET discussed == {t \in DOMAIN tweetConversations :
                               Len(tweetConversations[t]) > 0}
          IN  \E f \in [discussed -> DOMAIN localStorage] :
                 /\ \A t, u \in discussed : f[t] = f[u] => t = u
                 /\ \A t \in discussed :
                       /\ Parse(localStorage[f[t]]).ok
                       /\ Len(Parse(localStorage[f[t]]).val) = Len(tweetConversations[t])
                       /\ \A j \in DOMAIN tweetConversations[t] :
                             Parse(localStorage[f[t]]).val[j].role
                                = tweetConversations[t][j].role)


\* C36: every list of articles sent to /summaries_selected holds exactly the
\* fetched articles that are selected when getHighlights is called, in the
\* order they were fetched in, and holds 1 to 5 articles.
C36_SentArticles ==
    [][Len(reqSummaries') > Len(reqSummaries)
         => LET sent == reqSummaries'[Len(reqSummaries')]
            IN  /\ Range(sent) = Range(articles) \cap Range(selectedArticles)
                /\ \A i, j \in DOMAIN sent :
                      i < j => \E p, q \in DOMAIN articles :
                                  p < q /\ articles[p] = sent[i] /\ articles[q] = sent[j]
                /\ Len(sent) \in 1..SelectionLimit]_vars

\* C36 witness: a request is out for articles that were selected in another
\* order than they were fetched in
C36_Witness ==
    /\ loadingSummaries
    /\ Len(reqSummaries) = 1
    /\ Range(reqSummaries[1]) = Range(selectedArticles)
    /\ reqSummaries[1] # selectedArticles
    /\ Len(reqSummaries[1]) > 1


\* C35: accepting a proposal changes, of the tweets, only the content of the
\* edited tweet: the number and order of the tweets, every other tweet and
\* the edited tweet's id and summary link stay, and so do all conversations,
\* the edited tweet's id as the edit target and the rest of the page.
C35_AcceptFrame ==
    [][PressAccept
         => /\ Len(tweets') = Len(tweets)
            /\ \A k \in DOMAIN tweets :
                  /\ tweets'[k].id = tweets[k].id
                  /\ tweets'[k].summary_link = tweets[k].summary_link
                  /\ tweets[k].id # currentEditingTweetId => tweets'[k] = tweets[k]
            /\ UNCHANGED <<tweetConversations, currentEditingTweetId, pipelineVars,
                           loadingVars, modalVars, reqVars>>]_vars

\* C35 witness: the second of two discussed tweets has an accepted proposal
\* as its content, the first still its generated text
C35_Witness ==
    /\ Len(tweets) = 2
    /\ tweets[1].content.kind = "generated"
    /\ tweets[2].content.kind = "proposed"
    /\ currentEditingTweetId = 2
    /\ pendingTweetUpdate = NullText
    /\ Len(ConversationOf(1)) > 0
    /\ Len(ConversationOf(2)) > 0


\* C34: the tweet being edited is none or a tweet of the list, in every
\* state, also after the list is replaced by a tweets response or emptied by
\* reset.
C34_TargetIsATweet ==
    currentEditingTweetId # NullId
       => \E k \in DOMAIN tweets : tweets[k].id = currentEditingTweetId


\* C33: a proposal is committed only to the tweet whose content was sent in
\* the request that produced it: every Accept writes a proposal made for the
\* edited tweet, of the generation of the list the tweet is in.
C33_CommittedToItsTweet ==
    [][PressAccept
         => /\ pendingTweetUpdate.tid = currentEditingTweetId
            /\ pendingTweetUpdate.gen = TweetWithId(currentEditingTweetId).content.gen]_vars


\* C32: a press on a stage's button whose own flag is clear and whose own
\* precondition holds sends the stage's request, whatever the flags of the
\* other stages are; and the answer to a stage's request leaves the flags and
\* the results of the other stages as they are, in whatever order the answers
\* arrive.
C32_StagesIndependent ==
    [][/\ (PressGetHighlights \/ PressDisabledGetHighlights) /\ ~loadingHighlights
            => reqHighlights' = reqHighlights + 1 /\ loadingHighlights'
       /\ (PressGetSummaries \/ PressDisabledGetSummaries) /\ ~loadingSummaries
             /\ Len(selectedArticles) \in 1..SelectionLimit
            => Len(reqSummaries') = Len(reqSummaries) + 1 /\ loadingSummaries'
       /\ (PressGenerateTweets \/ PressDisabledGenerateTweets) /\ ~loadingTweets
             /\ Len(highlights) > 0
            => Len(reqTweets') = Len(reqTweets) + 1 /\ loadingTweets'
       /\ (PressGenerateNewsletter \/ PressDisabledGenerateNewsletter) /\ ~loadingNewsletter
             /\ Len(highlights) > 0
            => reqNewsletter' = reqNewsletter + 1 /\ loadingNewsletter'
       /\ FetchArrives
            => UNCHANGED <<loadingSummaries, loadingTweets, loadingNewsletter,
                           highlights, pageIndex, tweetVars, newsletterHtml,
                           reqSummaries, reqTweets, reqNewsletter>>
       /\ SummariesArrive
            => UNCHANGED <<loadingHighlights, loadingTweets, loadingNewsletter,
                           articles, selectedArticles, summary, tweetVars, newsletterHtml,
                           reqHighlights, reqTweets, reqNewsletter>>
       /\ TweetsArrive
            => UNCHANGED <<loadingHighlights, loadingSummaries, loadingNewsletter,
                           pipelineVars, reqHighlights, reqSummaries, reqNewsletter>>
       /\ NewsletterArrives
            => UNCHANGED <<loadingHighlights, loadingSummaries, loadingTweets,
                           articles, selectedArticles, summary, summariesMode, pageIndex,
                           highlights, tweetVars,
                           reqHighlights, reqSummaries, reqTweets>>]_vars

\* C32 witness: the tweets and the newsletter were requested one while the
\* other was in flight, and both requests are out
C32_Witness ==
    /\ loadingTweets /\ Len(reqTweets) = 1
    /\ loadingNewsletter /\ reqNewsletter = 1
    /\ newsletterHtml = EmptyText
    /\ tweets = <<>> /\ tweetGen = 0
    /\ signal = "none"


\* C31: when every outstanding request is answered in the end, every
\* in-flight flag that is set is cleared in the end; after a failed answer
\* the page still renders with the stage's flag clear, so the operation can
\* be invoked again; and an answer, failed or not, sends no request.
C31_FlagsClearedAndRetry ==
    /\ loadingHighlights ~> ~loadingHighlights
    /\ loadingSummaries ~> ~loadingSummaries
    /\ loadingTweets ~> ~loadingTweets
    /\ loadingNewsletter ~> ~loadingNewsletter
    /\ [][FailedArrival => Rendered']_vars
    /\ [][FetchArrives \/ SummariesArrive \/ TweetsArrive \/ NewsletterArrives
            => /\ reqHighlights' <= reqHighlights
               /\ Len(reqSummaries') <= Len(reqSummaries)
               /\ Len(reqTweets') <= Len(reqTweets)
               /\ reqNewsletter' <= reqNewsletter]_vars

=============================================================================
